---- MODULE Spec2Model ----
(***************************************************************************)
(* A model of pyaixi's Agent base class (src/pyaixi/agent.py): the         *)
(* action/percept alternation protocol and the incremental reward          *)
(* statistics (Knuth-Welford).                                             *)
(*                                                                         *)
(* Numbers: rewards are integers; mean_reward and reward_m2 are exact      *)
(* rationals [num, den] in lowest terms, den > 0, so that `delta / n`      *)
(* (true division, `from __future__ import division`) is exact.            *)
(* Python's 0 and 0.0 compare equal and are modelled by the same value.    *)
(*                                                                         *)
(* Exceptions: the code signals every precondition failure with `assert`.  *)
(* The outcome of a call names the assertion that fired:                   *)
(*   line  64  -> "ConfigurationError"                                     *)
(*   line 166  -> "InvalidActionError"                                     *)
(*   line 167, 187 -> "ProtocolError"                                      *)
(* and int() failing on line 75 -> "ValueError".                           *)
(***************************************************************************)
EXTENDS Integers, Sequences, FiniteSets, TLC

VARIABLES
    pc,               \* "new" (before __init__), "ready" (agent exists), "failed" (__init__ raised)
    environment,      \* constructor argument / self.environment
    options,          \* constructor argument / self.options
    age,              \* self.age
    last_update,      \* self.last_update
    learning_period,  \* self.learning_period
    mean_reward,      \* self.mean_reward
    reward_m2,        \* self.reward_m2
    total_reward,     \* self.total_reward
    outcome,          \* the last call: operation, argument, result, returned value
    rewards,          \* history: rewards of the percept updates that succeeded since construction/reset
    nAct,             \* history: number of action updates that succeeded since construction/reset
    prevUpd,          \* history: kind of the last update that succeeded ("none" before the first)
    resetSince,       \* history: reset() was called after the last update that succeeded
    calls,            \* history: the update/reset calls issued since construction, while they
                      \*          follow one of the Scenarios; Off afterwards
    twin              \* a freshly constructed agent (same environment and options) that is
                      \* given every update call made since construction or the last reset()

fields == <<age, last_update, learning_period, mean_reward, reward_m2, total_reward>>
config == <<environment, options>>
history == <<rewards, nAct, prevUpd, resetSince, calls>>
vars == <<pc, environment, options, age, last_update, learning_period,
          mean_reward, reward_m2, total_reward, outcome,
          rewards, nAct, prevUpd, resetSince, calls, twin>>

----------------------------------------------------------------------------
(* Bounds and input sets *)

MaxAge == 3

Actions == 0 .. 2
Rewards == {1, 2, 3}
Observations == {0, 1}

----------------------------------------------------------------------------
(* update_enum = util.enum('action_update', 'percept_update') *)

action_update == "action_update"
percept_update == "percept_update"

(* The value of an attribute that __init__ has not assigned yet. *)
Unset == "unset"

----------------------------------------------------------------------------
(* Exact rational arithmetic *)

Abs(x) == IF x < 0 THEN -x ELSE x

RECURSIVE GCD(_, _)
GCD(a, b) == IF b = 0 THEN a ELSE GCD(b, a % b)

Rat(n, d) ==
    LET g == GCD(Abs(n), Abs(d))
        s == IF d < 0 THEN -1 ELSE 1
    IN  [num |-> (s * n) \div g, den |-> (s * d) \div g]

RatInt(i) == [num |-> i, den |-> 1]
RatAdd(x, y) == Rat(x.num * y.den + y.num * x.den, x.den * y.den)
RatSub(x, y) == Rat(x.num * y.den - y.num * x.den, x.den * y.den)
RatMul(x, y) == Rat(x.num * y.num, x.den * y.den)
RatDivInt(x, n) == Rat(x.num, x.den * n)
Zero == RatInt(0)

----------------------------------------------------------------------------
(* Python values held in the options mapping, and int() *)

PyI(i) == [t |-> "int", v |-> i]
PyS(s) == [t |-> "str", v |-> s]
PyF(n, d) == [t |-> "float", v |-> Rat(n, d)]

DigitVal == ("0" :> 0) @@ ("1" :> 1) @@ ("2" :> 2) @@ ("3" :> 3) @@ ("4" :> 4) @@
            ("5" :> 5) @@ ("6" :> 6) @@ ("7" :> 7) @@ ("8" :> 8) @@ ("9" :> 9)

RECURSIVE DigitsValue(_)
DigitsValue(s) ==
    IF s = <<>> THEN 0 ELSE 10 * DigitsValue(SubSeq(s, 1, Len(s) - 1)) + DigitVal[s[Len(s)]]

IsDigits(s) == Len(s) > 0 /\ \A i \in 1 .. Len(s) : s[i] \in DOMAIN DigitVal

(* int(x) is defined: an integer, a finite float, or a string holding an *)
(* optionally signed decimal numeral.                                     *)
IntDefined(x) ==
    \/ x.t \in {"int", "float"}
    \/ /\ x.t = "str"
       /\ Len(x.v) > 0
       /\ IF x.v[1] \in {"-", "+"} THEN IsDigits(Tail(x.v)) ELSE IsDigits(x.v)

(* int(x): an integer is kept, a float is truncated towards zero, a string *)
(* is parsed.                                                              *)
IntTruncate(x) ==
    IF x.t = "int" THEN x.v
    ELSE IF x.t = "float"
         THEN (IF x.v.num < 0 THEN -((-x.v.num) \div x.v.den) ELSE x.v.num \div x.v.den)
    ELSE IF x.v[1] = "-" THEN -DigitsValue(Tail(x.v))
    ELSE IF x.v[1] = "+" THEN DigitsValue(Tail(x.v))
    ELSE DigitsValue(x.v)

(* Variant: a float is floored instead of truncated. *)
PyInt_floor(x) == IF x.t = "float" THEN x.v.num \div x.v.den ELSE IntTruncate(x)

PyInt(x) == IntTruncate(x)

(* options.get(key, default) *)
Get(opts, key, default) == IF key \in DOMAIN opts THEN opts[key] ELSE default

----------------------------------------------------------------------------
(* Constructor arguments *)

None == [kind |-> "None"]

(* An environment: `valid` is the set is_valid_action accepts; `attrs` are  *)
(* the attributes hasattr finds among valid_actions, minimum_action and    *)
(* maximum_action; maximum_action() and maximum_reward() are part of every *)
(* environment.                                                            *)
Env(valid, attrs, valid_actions, min, max, max_reward) ==
    [kind |-> "env", valid |-> valid, attrs |-> attrs \cup {"maximum_action"},
     valid_actions |-> valid_actions, minimum_action |-> min,
     maximum_action |-> max, maximum_reward |-> max_reward]

EnumeratedEnv == Env({0, 2}, {"valid_actions", "minimum_action"}, {0, 2}, 0, 2, 3)
BoundedEnv == Env({0, 1, 2}, {"minimum_action"}, {}, 0, 2, 3)
SingleActionEnv == Env({1}, {"minimum_action"}, {}, 1, 1, 1)
BareEnv == Env({0, 1}, {}, {}, 0, 1, 2)

Environments == {EnumeratedEnv, BoundedEnv, SingleActionEnv, BareEnv}

(* hasattr(env, name) *)
hasattr(env, name) == name \in env.attrs

EmptyOptions == [k \in {} |-> PyI(0)]

OptionMappings ==
    { EmptyOptions,
      ("learning-period" :> PyI(2)) @@ ("agent-horizon" :> PyI(4)),
      ("learning-period" :> PyS(<<"1", "0">>)),
      ("learning-period" :> PyF(-5, 2)),
      ("learning-period" :> PyS(<<"x">>)) }

(* The constructor calls explored: every options mapping with one         *)
(* environment and with None, every environment with the empty mapping.   *)
Configurations ==
    { c \in (Environments \cup {None}) \X OptionMappings :
          c[1] \in {EnumeratedEnv, None} \/ c[2] = EmptyOptions }

(* environment.is_valid_action(action) *)
is_valid_action(env, action) == action \in env.valid

----------------------------------------------------------------------------
(* Outcome of a call *)

NoValue == <<>>
Call(op, arg, result, ret) == [op |-> op, arg |-> arg, result |-> result, ret |-> ret]

(* The call raised: nothing is assigned. *)
Raise(op, arg, err) ==
    /\ outcome' = Call(op, arg, err, NoValue)
    /\ UNCHANGED fields

----------------------------------------------------------------------------
(* Scenario observer *)

A == [op |-> "A", r |-> 0]
P(r) == [op |-> "P", r |-> r]
Off == <<[op |-> "off", r |-> 0]>>

Scenarios ==
    { <<A, P(1), A, P(2), A, P(3)>>,
      <<P(1), A, P(2), A, P(3), A>> }

IsPrefix(s, t) == Len(s) <= Len(t) /\ SubSeq(t, 1, Len(s)) = s

Observe(c) ==
    LET next == Append(calls, c)
    IN  IF calls # Off /\ \E s \in Scenarios : IsPrefix(next, s) THEN next ELSE Off

----------------------------------------------------------------------------
(* The attributes __init__ assigns, as a record. *)
FreshAgent(opts) ==
    [age |-> 0,
     last_update |-> action_update,
     learning_period |-> PyInt(Get(opts, "learning-period", PyI(0))),
     mean_reward |-> Zero,
     reward_m2 |-> Zero,
     total_reward |-> 0]

(* The twin before construction: none is born yet, and its attributes are
   not read until born changes. *)
NoTwin == [born |-> "none", result |-> "none", s |-> FreshAgent(EmptyOptions)]

----------------------------------------------------------------------------
Init ==
    /\ pc = "new"
    /\ \E c \in Configurations : environment = c[1] /\ options = c[2]
    /\ age = Unset
    /\ last_update = Unset
    /\ learning_period = Unset
    /\ mean_reward = Unset
    /\ reward_m2 = Unset
    /\ total_reward = Unset
    /\ outcome = Call("none", 0, "ok", NoValue)
    /\ rewards = <<>>
    /\ nAct = 0
    /\ prevUpd = "none"
    /\ resetSince = FALSE
    /\ calls = <<>>
    /\ twin = NoTwin

(* Variant: the environment assertion is missing. *)
Construct_unchecked ==
    /\ pc = "new"
    /\ UNCHANGED config
    /\ UNCHANGED history
    /\ IF ~IntDefined(Get(options, "learning-period", PyI(0)))
       THEN /\ pc' = "failed"
            /\ Raise("__init__", 0, "ValueError")
            /\ UNCHANGED twin
       ELSE /\ pc' = "ready"
            /\ twin' = [born |-> "init", result |-> "ok", s |-> FreshAgent(options)]
            /\ age' = 0
            /\ last_update' = action_update
            /\ learning_period' = PyInt(Get(options, "learning-period", PyI(0)))
            /\ mean_reward' = Zero
            /\ reward_m2' = Zero
            /\ total_reward' = 0
            /\ outcome' = Call("__init__", 0, "ok", NoValue)

(* Agent.__init__(environment, options) *)
Construct ==
    /\ pc = "new"
    /\ UNCHANGED config
    /\ UNCHANGED history
    /\ IF environment = None
       THEN /\ pc' = "failed"
            /\ Raise("__init__", 0, "ConfigurationError")
            /\ UNCHANGED twin
       ELSE IF ~IntDefined(Get(options, "learning-period", PyI(0)))
       THEN /\ pc' = "failed"
            /\ Raise("__init__", 0, "ValueError")
            /\ UNCHANGED twin
       ELSE /\ pc' = "ready"
            /\ twin' = [born |-> "init", result |-> "ok", s |-> FreshAgent(options)]
            /\ age' = 0
            /\ last_update' = action_update
            /\ learning_period' = PyInt(Get(options, "learning-period", PyI(0)))
            /\ mean_reward' = Zero
            /\ reward_m2' = Zero
            /\ total_reward' = 0
            /\ outcome' = Call("__init__", 0, "ok", NoValue)

----------------------------------------------------------------------------
(* Agent.model_update_action(action) *)

(* Variant: the phase assertion is missing. *)
ActionPhase_any(lu) == lu \in {action_update, percept_update}

ActionPhase(lu) == lu = percept_update

(* Variant: the cycle counter advances by two. *)
NextAge_twice(a) == a + 2

NextAge(a) == a + 1

(* model_update_action on an agent given as a record. *)
ActionStep(t, env, action) ==
    IF ~is_valid_action(env, action)
    THEN [t EXCEPT !.result = "InvalidActionError"]
    ELSE IF ~ActionPhase(t.s.last_update)
    THEN [t EXCEPT !.result = "ProtocolError"]
    ELSE [t EXCEPT !.result = "ok",
                   !.s.age = NextAge(t.s.age),
                   !.s.last_update = action_update]

(* Variant: the phase is asserted before the validity of the action. *)
model_update_action_phase_first(action) ==
    /\ pc = "ready"
    /\ UNCHANGED <<pc, config>>
    /\ twin' = ActionStep(twin, environment, action)
    /\ calls' = Observe(IF is_valid_action(environment, action) THEN A
                        ELSE [op |-> "A-invalid", r |-> 0])
    /\ IF ~ActionPhase(last_update)
       THEN /\ Raise("model_update_action", action, "ProtocolError")
            /\ UNCHANGED <<rewards, nAct, prevUpd, resetSince>>
       ELSE IF ~is_valid_action(environment, action)
       THEN /\ Raise("model_update_action", action, "InvalidActionError")
            /\ UNCHANGED <<rewards, nAct, prevUpd, resetSince>>
       ELSE /\ age < MaxAge
            /\ age' = NextAge(age)
            /\ last_update' = action_update
            /\ UNCHANGED <<learning_period, mean_reward, reward_m2, total_reward>>
            /\ outcome' = Call("model_update_action", action, "ok", NoValue)
            /\ nAct' = nAct + 1
            /\ prevUpd' = "action"
            /\ resetSince' = FALSE
            /\ UNCHANGED rewards

model_update_action(action) ==
    /\ pc = "ready"
    /\ UNCHANGED <<pc, config>>
    /\ twin' = ActionStep(twin, environment, action)
    /\ calls' = Observe(IF is_valid_action(environment, action) THEN A
                        ELSE [op |-> "A-invalid", r |-> 0])
    /\ IF ~is_valid_action(environment, action)
       THEN /\ Raise("model_update_action", action, "InvalidActionError")
            /\ UNCHANGED <<rewards, nAct, prevUpd, resetSince>>
       ELSE IF ~ActionPhase(last_update)
       THEN /\ Raise("model_update_action", action, "ProtocolError")
            /\ UNCHANGED <<rewards, nAct, prevUpd, resetSince>>
       ELSE /\ age < MaxAge
            /\ age' = NextAge(age)
            /\ last_update' = action_update
            /\ UNCHANGED <<learning_period, mean_reward, reward_m2, total_reward>>
            /\ outcome' = Call("model_update_action", action, "ok", NoValue)
            /\ nAct' = nAct + 1
            /\ prevUpd' = "action"
            /\ resetSince' = FALSE
            /\ UNCHANGED rewards

----------------------------------------------------------------------------
(* Agent.update_reward_statistics(reward) *)

(* Variant: the off-by-one correction is applied twice. *)
StatN_off(a) == a + 2

StatN(a) == a + 1

Delta(reward, mean) == RatSub(RatInt(reward), mean)

(* Variant: the mean moves by a fixed half of delta instead of delta / n. *)
NewMean_half(mean, delta, n) == RatAdd(mean, RatDivInt(delta, 2))

NewMean(mean, delta, n) == RatAdd(mean, RatDivInt(delta, n))

(* Variant: M2 accumulates delta times the deviation from the OLD mean. *)
NewM2_old(m2, delta, reward, mean) == RatAdd(m2, RatMul(delta, delta))

NewM2(m2, delta, reward, mean) == RatAdd(m2, RatMul(delta, RatSub(RatInt(reward), mean)))

(* Variant: the total is assigned instead of accumulated. *)
NewTotal_assign(total, reward) == reward

NewTotal(total, reward) == total + reward

update_reward_statistics(reward) ==
    LET n == StatN(age)
        delta == Delta(reward, mean_reward)
        mean == NewMean(mean_reward, delta, n)
    IN  /\ mean_reward' = mean
        /\ reward_m2' = NewM2(reward_m2, delta, reward, mean)
        /\ total_reward' = NewTotal(total_reward, reward)

(* Agent.model_update_percept(observation, reward) *)

(* Variant: the phase test compares with a value last_update never has. *)
PerceptPhase_never(lu) == lu = "action"

(* Variant: the phase test is inverted. *)
PerceptPhase_flipped(lu) == lu = percept_update

PerceptPhase(lu) == lu = action_update

(* model_update_percept on an agent given as a record. *)
PerceptStep(t, observation, reward) ==
    IF ~PerceptPhase(t.s.last_update)
    THEN [t EXCEPT !.result = "ProtocolError"]
    ELSE LET n == StatN(t.s.age)
             delta == Delta(reward, t.s.mean_reward)
             mean == NewMean(t.s.mean_reward, delta, n)
         IN  [t EXCEPT !.result = "ok",
                       !.s.mean_reward = mean,
                       !.s.reward_m2 = NewM2(t.s.reward_m2, delta, reward, mean),
                       !.s.total_reward = NewTotal(t.s.total_reward, reward),
                       !.s.last_update = percept_update]

(* Variant: the statistics are updated before the phase assertion. *)
model_update_percept_early(observation, reward) ==
    /\ pc = "ready"
    /\ UNCHANGED <<pc, config>>
    /\ twin' = PerceptStep(twin, observation, reward)
    /\ calls' = Observe(P(reward))
    /\ update_reward_statistics(reward)
    /\ UNCHANGED <<age, learning_period>>
    /\ IF ~PerceptPhase(last_update)
       THEN /\ outcome' = Call("model_update_percept", reward, "ProtocolError", NoValue)
            /\ UNCHANGED <<last_update, rewards, nAct, prevUpd, resetSince>>
       ELSE /\ last_update' = percept_update
            /\ outcome' = Call("model_update_percept", reward, "ok", NoValue)
            /\ rewards' = Append(rewards, reward)
            /\ prevUpd' = "percept"
            /\ resetSince' = FALSE
            /\ UNCHANGED nAct

(* Variant: the statistics are updated with the observation. *)
model_update_percept_observation(observation, reward) ==
    /\ pc = "ready"
    /\ UNCHANGED <<pc, config>>
    /\ twin' = PerceptStep(twin, observation, reward)
    /\ calls' = Observe(P(reward))
    /\ IF ~PerceptPhase(last_update)
       THEN /\ Raise("model_update_percept", reward, "ProtocolError")
            /\ UNCHANGED <<rewards, nAct, prevUpd, resetSince>>
       ELSE /\ update_reward_statistics(observation)
            /\ last_update' = percept_update
            /\ UNCHANGED <<age, learning_period>>
            /\ outcome' = Call("model_update_percept", reward, "ok", NoValue)
            /\ rewards' = Append(rewards, reward)
            /\ prevUpd' = "percept"
            /\ resetSince' = FALSE
            /\ UNCHANGED nAct

model_update_percept(observation, reward) ==
    /\ pc = "ready"
    /\ UNCHANGED <<pc, config>>
    /\ twin' = PerceptStep(twin, observation, reward)
    /\ calls' = Observe(P(reward))
    /\ IF ~PerceptPhase(last_update)
       THEN /\ Raise("model_update_percept", reward, "ProtocolError")
            /\ UNCHANGED <<rewards, nAct, prevUpd, resetSince>>
       ELSE /\ update_reward_statistics(reward)
            /\ last_update' = percept_update
            /\ UNCHANGED <<age, learning_period>>
            /\ outcome' = Call("model_update_percept", reward, "ok", NoValue)
            /\ rewards' = Append(rewards, reward)
            /\ prevUpd' = "percept"
            /\ resetSince' = FALSE
            /\ UNCHANGED nAct

----------------------------------------------------------------------------
(* Agent.reset() *)

(* Variant: reward_m2 is not reset. *)
reset_partial ==
    /\ pc = "ready"
    /\ UNCHANGED <<pc, config>>
    /\ age' = 0
    /\ mean_reward' = Zero
    /\ total_reward' = 0
    /\ last_update' = action_update
    /\ UNCHANGED <<learning_period, reward_m2>>
    /\ outcome' = Call("reset", 0, "ok", NoValue)
    /\ rewards' = <<>>
    /\ nAct' = 0
    /\ resetSince' = TRUE
    /\ calls' = Off
    /\ UNCHANGED prevUpd
    /\ twin' = [born |-> "reset", result |-> "ok", s |-> FreshAgent(options)]

(* Variant: age is not reset. *)
reset_keeps_age ==
    /\ pc = "ready"
    /\ UNCHANGED <<pc, config>>
    /\ mean_reward' = Zero
    /\ reward_m2' = Zero
    /\ total_reward' = 0
    /\ last_update' = action_update
    /\ UNCHANGED <<learning_period, age>>
    /\ outcome' = Call("reset", 0, "ok", NoValue)
    /\ rewards' = <<>>
    /\ nAct' = 0
    /\ resetSince' = TRUE
    /\ calls' = Off
    /\ UNCHANGED prevUpd
    /\ twin' = [born |-> "reset", result |-> "ok", s |-> FreshAgent(options)]

(* Variant: last_update is not reset. *)
reset_keeps_phase ==
    /\ pc = "ready"
    /\ UNCHANGED <<pc, config>>
    /\ age' = 0
    /\ mean_reward' = Zero
    /\ reward_m2' = Zero
    /\ total_reward' = 0
    /\ UNCHANGED <<learning_period, last_update>>
    /\ outcome' = Call("reset", 0, "ok", NoValue)
    /\ rewards' = <<>>
    /\ nAct' = 0
    /\ resetSince' = TRUE
    /\ calls' = Off
    /\ UNCHANGED prevUpd
    /\ twin' = [born |-> "reset", result |-> "ok", s |-> FreshAgent(options)]

reset ==
    /\ pc = "ready"
    /\ UNCHANGED <<pc, config>>
    /\ age' = 0
    /\ mean_reward' = Zero
    /\ reward_m2' = Zero
    /\ total_reward' = 0
    /\ last_update' = action_update
    /\ UNCHANGED learning_period
    /\ outcome' = Call("reset", 0, "ok", NoValue)
    /\ rewards' = <<>>
    /\ nAct' = 0
    /\ resetSince' = TRUE
    /\ calls' = Off
    /\ UNCHANGED prevUpd
    /\ twin' = [born |-> "reset", result |-> "ok", s |-> FreshAgent(options)]

----------------------------------------------------------------------------
(* Agent.average_reward() *)

average_reward ==
    /\ pc = "ready"
    /\ UNCHANGED <<pc, config, fields, history, twin>>
    /\ outcome' = Call("average_reward", 0, "ok", <<mean_reward>>)

----------------------------------------------------------------------------
(* A call that assigns nothing and returns ret (NoValue for None). *)
Return(op, ret) ==
    /\ pc = "ready"
    /\ UNCHANGED <<pc, config, fields, history, twin>>
    /\ outcome' = Call(op, 0, "ok", ret)

(* The value of Agent.maximum_action() *)
maximum_action_value(env) == IF env # None THEN <<env.maximum_action>> ELSE NoValue

(* The value of Agent.maximum_reward() *)
maximum_reward_value(env) == IF env # None THEN <<env.maximum_reward>> ELSE NoValue

(* Agent.maximum_action() *)
maximum_action == Return("maximum_action", maximum_action_value(environment))

(* Agent.maximum_reward() *)
maximum_reward == Return("maximum_reward", maximum_reward_value(environment))

(* Agent.model_size() *)
model_size == Return("model_size", <<0>>)

(* Variant: search delegates to maximum_reward(). *)
search_reward == Return("search", maximum_reward_value(environment))

(* Agent.search() *)
search == Return("search", maximum_action_value(environment))

----------------------------------------------------------------------------
(* Agent.generate_random_action() *)

(* util.choice(sequence): the elements it can return *)
choice(sequence) == sequence

(* Variant: the upper bound is included. *)
randrange_inclusive(start, stop) == start .. stop

(* random.randrange(start, stop): the integers it can return; none when the *)
(* range is empty, and the call raises ValueError                           *)
randrange(start, stop) == start .. (stop - 1)

(* Variant: the bounds are consulted before valid_actions. *)
generate_random_action_bounds_first ==
    /\ pc = "ready"
    /\ UNCHANGED <<pc, config, history, twin>>
    /\ IF hasattr(environment, "minimum_action") /\ hasattr(environment, "maximum_action")
       THEN IF randrange(environment.minimum_action, environment.maximum_action) = {}
            THEN Raise("generate_random_action", 0, "ValueError")
            ELSE /\ \E a \in randrange(environment.minimum_action, environment.maximum_action) :
                        outcome' = Call("generate_random_action", 0, "ok", <<a>>)
                 /\ UNCHANGED fields
       ELSE IF hasattr(environment, "valid_actions")
       THEN /\ \E a \in choice(environment.valid_actions) :
                   outcome' = Call("generate_random_action", 0, "ok", <<a>>)
            /\ UNCHANGED fields
       ELSE /\ outcome' = Call("generate_random_action", 0, "ok", NoValue)
            /\ UNCHANGED fields

(* Variant: an environment without either capability is an error. *)
generate_random_action_strict ==
    /\ pc = "ready"
    /\ UNCHANGED <<pc, config, history, twin>>
    /\ IF hasattr(environment, "valid_actions")
       THEN /\ \E a \in choice(environment.valid_actions) :
                   outcome' = Call("generate_random_action", 0, "ok", <<a>>)
            /\ UNCHANGED fields
       ELSE IF hasattr(environment, "minimum_action") /\ hasattr(environment, "maximum_action")
       THEN IF randrange(environment.minimum_action, environment.maximum_action) = {}
            THEN Raise("generate_random_action", 0, "ValueError")
            ELSE /\ \E a \in randrange(environment.minimum_action, environment.maximum_action) :
                        outcome' = Call("generate_random_action", 0, "ok", <<a>>)
                 /\ UNCHANGED fields
       ELSE Raise("generate_random_action", 0, "ConfigurationError")

generate_random_action ==
    /\ pc = "ready"
    /\ UNCHANGED <<pc, config, history, twin>>
    /\ IF hasattr(environment, "valid_actions")
       THEN /\ \E a \in choice(environment.valid_actions) :
                   outcome' = Call("generate_random_action", 0, "ok", <<a>>)
            /\ UNCHANGED fields
       ELSE IF hasattr(environment, "minimum_action") /\ hasattr(environment, "maximum_action")
       THEN IF randrange(environment.minimum_action, environment.maximum_action) = {}
            THEN Raise("generate_random_action", 0, "ValueError")
            ELSE /\ \E a \in randrange(environment.minimum_action, environment.maximum_action) :
                        outcome' = Call("generate_random_action", 0, "ok", <<a>>)
                 /\ UNCHANGED fields
       ELSE /\ outcome' = Call("generate_random_action", 0, "ok", NoValue)
            /\ UNCHANGED fields

----------------------------------------------------------------------------
Next ==
    \/ Construct
    \/ \E action \in Actions : model_update_action(action)
    \/ \E observation \in Observations, reward \in Rewards :
           model_update_percept(observation, reward)
    \/ reset
    \/ average_reward
    \/ maximum_action
    \/ maximum_reward
    \/ model_size
    \/ search
    \/ generate_random_action

Spec == Init /\ [][Next]_vars

----------------------------------------------------------------------------
(* The interaction loop: after construction it only issues update calls,   *)
(* and it keeps issuing the update that the current phase admits, with a   *)
(* valid action.                                                           *)

LoopNext ==
    \/ Construct
    \/ \E action \in Actions : model_update_action(action)
    \/ \E observation \in Observations, reward \in Rewards :
           model_update_percept(observation, reward)

(* A model_update_action call that succeeds. *)
AdmittedAction ==
    \E action \in Actions :
        /\ pc = "ready"
        /\ is_valid_action(environment, action)
        /\ ActionPhase(last_update)
        /\ model_update_action(action)

(* The change of last_update made by a model_update_percept call that      *)
(* succeeds.  The fairness condition is stated on this change alone: the   *)
(* statistics the call computes play no part in whether it can be made.    *)
AdmittedPercept ==
    /\ pc = "ready"
    /\ PerceptPhase(last_update)
    /\ last_update' = percept_update

LoopSpec ==
    /\ Init
    /\ [][LoopNext]_vars
    /\ WF_history(AdmittedAction)
    /\ WF_last_update(AdmittedPercept)

----------------------------------------------------------------------------
(* Operators used to state the properties *)

RECURSIVE SumSeq(_)
SumSeq(s) == IF s = <<>> THEN 0 ELSE Head(s) + SumSeq(Tail(s))

RECURSIVE SumSqDev(_, _)
SumSqDev(s, m) ==
    IF s = <<>> THEN Zero
    ELSE LET d == RatSub(RatInt(Head(s)), m)
         IN  RatAdd(RatMul(d, d), SumSqDev(Tail(s), m))

Mean(s) == Rat(SumSeq(s), Len(s))

IsAction(o) == o.op = "model_update_action"
IsPercept(o) == o.op = "model_update_percept"

ScenarioSpec == <<A, P(1), A, P(2), A, P(3)>>
ScenarioCode == <<P(1), A, P(2), A, P(3), A>>

(* Python's `k == x` for an integer k and an option value x. *)
PyEq(k, x) ==
    IF x.t = "int" THEN k = x.v
    ELSE IF x.t = "float" THEN RatInt(k) = x.v
    ELSE FALSE

(* k is the integer conversion of x, stated without int(). *)
IsIntOf(k, x) ==
    IF x.t = "int" THEN k = x.v
    ELSE IF x.t = "float"
         THEN IF x.v.num >= 0
              THEN k * x.v.den <= x.v.num /\ x.v.num < (k + 1) * x.v.den
              ELSE (k - 1) * x.v.den < x.v.num /\ x.v.num <= k * x.v.den
    ELSE /\ IntDefined(x)
         /\ Abs(k) = DigitsValue(IF x.v[1] \in {"-", "+"} THEN Tail(x.v) ELSE x.v)
         /\ (k < 0 => x.v[1] = "-")
         /\ (k > 0 => x.v[1] # "-")

----------------------------------------------------------------------------
(* C1 (as stated): an action update that follows a successful action update
   with no successful percept update in between fails with ProtocolError,
   and a percept update that follows a successful percept update with no
   successful action update in between fails with ProtocolError. *)
C1_AsStated ==
    [][ /\ (IsAction(outcome') /\ prevUpd = "action") => outcome'.result = "ProtocolError"
        /\ (IsPercept(outcome') /\ prevUpd = "percept") => outcome'.result = "ProtocolError"
      ]_vars

(* C1 (amended): an action update that follows a successful action update
   with no successful percept update in between fails: with ProtocolError
   when the action is valid, with InvalidActionError when it is not.  A
   percept update that follows a successful percept update with no
   successful action update and no reset() in between fails with
   ProtocolError. *)
C1_Alternation ==
    [][ /\ (IsAction(outcome') /\ prevUpd = "action") =>
               outcome'.result = IF is_valid_action(environment, outcome'.arg)
                                 THEN "ProtocolError" ELSE "InvalidActionError"
        /\ (IsPercept(outcome') /\ prevUpd = "percept" /\ ~resetSince) =>
               outcome'.result = "ProtocolError"
      ]_vars

C1_Witness ==
    /\ pc = "ready"
    /\ IsAction(outcome)
    /\ prevUpd = "action"
    /\ outcome.result = "ProtocolError"

(* C2: age equals the number of action updates that succeeded since
   construction or the last reset, and is never negative. *)
C2_AgeCounts == pc = "ready" => (age = nAct /\ age >= 0)

C2_Witness ==
    /\ pc = "ready"
    /\ age = 2
    /\ resetSince = FALSE
    /\ outcome.result = "InvalidActionError"

(* C3: a failing model_update_action or model_update_percept leaves age,
   last_update, mean_reward, reward_m2 and total_reward unchanged. *)
C3_FailureNoChange ==
    [][ (pc = "ready" /\ (IsAction(outcome') \/ IsPercept(outcome')) /\ outcome'.result # "ok")
            => UNCHANGED <<age, last_update, mean_reward, reward_m2, total_reward>>
      ]_vars

C3_Witness ==
    /\ pc = "ready"
    /\ IsPercept(outcome)
    /\ outcome.result = "ProtocolError"
    /\ Len(rewards) = 2

(* C4: total_reward is the exact sum of the rewards of the percept updates
   that succeeded since construction or the last reset. *)
C4_TotalIsSum == pc = "ready" => total_reward = SumSeq(rewards)

C4_Witness ==
    /\ pc = "ready"
    /\ Len(rewards) = 3
    /\ IsPercept(outcome)
    /\ outcome.result = "ProtocolError"
    /\ total_reward # 0

(* C5: once n >= 1 percept updates have succeeded, mean_reward, which is
   what average_reward() returns, equals total_reward / n, the arithmetic
   mean of the n rewards. *)
C5_MeanIsAverage ==
    (pc = "ready" /\ Len(rewards) >= 1) =>
        /\ mean_reward = Rat(total_reward, Len(rewards))
        /\ mean_reward = Mean(rewards)
        /\ (outcome.op = "average_reward" => outcome.ret = <<Mean(rewards)>>)

C5_Witness ==
    /\ pc = "ready"
    /\ Len(rewards) = 3
    /\ mean_reward.den = 3
    /\ outcome.op = "average_reward"

(* C6: once n >= 1 percept updates have succeeded, reward_m2 is the sum of
   the squared deviations of the n rewards from their arithmetic mean. *)
C6_M2IsSumSq ==
    (pc = "ready" /\ Len(rewards) >= 1) => reward_m2 = SumSqDev(rewards, Mean(rewards))

C6_Witness ==
    /\ pc = "ready"
    /\ Len(rewards) = 3
    /\ nAct = 2
    /\ reward_m2.den = 3

(* C7: reset() can be called in every state of the agent, succeeds, and
   yields age = 0, zero statistics and last_update = action_update, while
   environment, options and learning_period keep their values. *)
C7_Reset ==
    /\ [](pc = "ready" => ENABLED reset)
    /\ [][ (pc = "ready" /\ outcome'.op = "reset") =>
               /\ outcome'.result = "ok"
               /\ age' = 0
               /\ mean_reward' = Zero
               /\ reward_m2' = Zero
               /\ total_reward' = 0
               /\ last_update' = action_update
               /\ UNCHANGED <<environment, options, learning_period>>
         ]_vars

C7_Witness ==
    /\ pc = "ready"
    /\ outcome.op = "reset"
    /\ prevUpd = "percept"
    /\ age = 0

(* C8 (as stated): on a fresh agent the calls action, percept(1), action,
   percept(2), action, percept(3) all succeed and end with
   total_reward = 6, mean_reward = 2, age = 3. *)
C8_AsStated ==
    (pc = "ready" /\ calls # <<>> /\ IsPrefix(calls, ScenarioSpec)) =>
        /\ (IsAction(outcome) \/ IsPercept(outcome)) => outcome.result = "ok"
        /\ (calls = ScenarioSpec =>
                total_reward = 6 /\ mean_reward = RatInt(2) /\ age = 3)

(* C8 (amended): on a fresh agent the calls percept(1), action, percept(2),
   action, percept(3), action all succeed and end with total_reward = 6,
   mean_reward = 2, age = 3. *)
C8_Scenario ==
    (pc = "ready" /\ calls # <<>> /\ IsPrefix(calls, ScenarioCode)) =>
        /\ (IsAction(outcome) \/ IsPercept(outcome)) => outcome.result = "ok"
        /\ (calls = ScenarioCode =>
                total_reward = 6 /\ mean_reward = RatInt(2) /\ age = 3)

C8_Witness == pc = "ready" /\ calls = ScenarioCode

(* C9 (as stated): on a fresh agent, model_update_percept as the very first
   update fails with ProtocolError. *)
C9_AsStated ==
    [][ (pc = "ready" /\ calls = <<>> /\ IsPercept(outcome'))
            => outcome'.result = "ProtocolError" ]_vars

(* C9 (amended): on a fresh agent, model_update_percept as the very first
   update succeeds; model_update_action with a valid action as the very
   first update fails with ProtocolError. *)
C9_FirstUpdate ==
    [][ (pc = "ready" /\ calls = <<>>) =>
            /\ IsPercept(outcome') => outcome'.result = "ok"
            /\ (IsAction(outcome') /\ is_valid_action(environment, outcome'.arg))
                   => outcome'.result = "ProtocolError"
      ]_vars

C9_Witness ==
    /\ pc = "ready"
    /\ calls = <<P(1)>>
    /\ IsPercept(outcome)
    /\ outcome.result = "ok"
    /\ rewards = <<1>>

(* C10 (as stated): a successful construction yields age = 0,
   last_update = action_update, zero statistics, learning_period equal to
   options['learning-period'] if present else 0, and the options as given;
   learning_period never changes afterwards. *)
C10_AsStated ==
    /\ []((pc = "ready" /\ outcome.op = "__init__") =>
            /\ age = 0
            /\ last_update = action_update
            /\ mean_reward = Zero
            /\ reward_m2 = Zero
            /\ total_reward = 0
            /\ IF "learning-period" \in DOMAIN options
               THEN PyEq(learning_period, options["learning-period"])
               ELSE learning_period = 0)
    /\ [][pc = "new" => options' = options]_vars
    /\ [][pc = "ready" => learning_period' = learning_period]_vars

(* C10 (amended): as stated, except that learning_period is the integer
   conversion int(options['learning-period']) of the option if present:
   the value of a numeral string, a float truncated towards zero, an
   integer as it is. *)
C10_Construction ==
    /\ []((pc = "ready" /\ outcome.op = "__init__") =>
            /\ age = 0
            /\ last_update = action_update
            /\ mean_reward = Zero
            /\ reward_m2 = Zero
            /\ total_reward = 0
            /\ IF "learning-period" \in DOMAIN options
               THEN IsIntOf(learning_period, options["learning-period"])
               ELSE learning_period = 0)
    /\ [][pc = "new" => options' = options]_vars
    /\ [][pc = "ready" => learning_period' = learning_period]_vars

C10_Witness ==
    /\ pc = "ready"
    /\ outcome.op = "__init__"
    /\ "learning-period" \in DOMAIN options
    /\ options["learning-period"].t = "float"
    /\ learning_period = -2

----------------------------------------------------------------------------
(* More operators used to state the properties *)

IsRandomAction(o) == o.op = "generate_random_action"

(* The agent's attributes as a record. *)
Agent ==
    [age |-> age,
     last_update |-> last_update,
     learning_period |-> learning_period,
     mean_reward |-> mean_reward,
     reward_m2 |-> reward_m2,
     total_reward |-> total_reward]

Succeeded(o) == o.result = "ok"

----------------------------------------------------------------------------
(* C11: construction with a null environment fails with ConfigurationError
   and yields no agent; a constructed agent's environment is never null,
   and maximum_action() and maximum_reward() always return the
   environment's value, never null. *)
C11_EnvironmentRequired ==
    /\ (environment = None /\ pc # "new") =>
           (pc = "failed" /\ outcome.result = "ConfigurationError")
    /\ pc = "ready" =>
           /\ environment # None
           /\ outcome.op = "maximum_action" =>
                  (Succeeded(outcome) /\ outcome.ret = <<environment.maximum_action>>)
           /\ outcome.op = "maximum_reward" =>
                  (Succeeded(outcome) /\ outcome.ret = <<environment.maximum_reward>>)

C11_Witness ==
    /\ pc = "failed"
    /\ environment = None
    /\ outcome.op = "__init__"
    /\ outcome.result = "ConfigurationError"
    /\ options = ("learning-period" :> PyS(<<"x">>))

(* C12: when the environment exposes valid_actions,
   generate_random_action() returns an element of valid_actions, also when
   the environment exposes minimum_action() and maximum_action(). *)
C12_ValidActionsFirst ==
    (pc = "ready" /\ IsRandomAction(outcome) /\ hasattr(environment, "valid_actions")) =>
        /\ Succeeded(outcome)
        /\ Len(outcome.ret) = 1
        /\ outcome.ret[1] \in environment.valid_actions

C12_Witness ==
    /\ pc = "ready"
    /\ IsRandomAction(outcome)
    /\ hasattr(environment, "valid_actions")
    /\ hasattr(environment, "minimum_action")
    /\ hasattr(environment, "maximum_action")
    /\ outcome.ret = <<environment.maximum_action>>

(* C13 (as stated): when the environment exposes no valid_actions but
   minimum_action() and maximum_action(), generate_random_action() returns
   an integer a with minimum_action() <= a < maximum_action(). *)
C13_AsStated ==
    (/\ pc = "ready"
     /\ IsRandomAction(outcome)
     /\ ~hasattr(environment, "valid_actions")
     /\ hasattr(environment, "minimum_action")
     /\ hasattr(environment, "maximum_action")) =>
        /\ Succeeded(outcome)
        /\ Len(outcome.ret) = 1
        /\ environment.minimum_action <= outcome.ret[1]
        /\ outcome.ret[1] < environment.maximum_action

(* C13 (amended): in such an environment generate_random_action() returns
   an integer a with minimum_action() <= a < maximum_action() when
   minimum_action() < maximum_action(), and raises ValueError, returning
   nothing, when minimum_action() >= maximum_action(); it never returns
   maximum_action(). *)
C13_HalfOpenRange ==
    (/\ pc = "ready"
     /\ IsRandomAction(outcome)
     /\ ~hasattr(environment, "valid_actions")
     /\ hasattr(environment, "minimum_action")
     /\ hasattr(environment, "maximum_action")) =>
        /\ outcome.ret # <<environment.maximum_action>>
        /\ IF environment.minimum_action < environment.maximum_action
           THEN /\ Succeeded(outcome)
                /\ Len(outcome.ret) = 1
                /\ environment.minimum_action <= outcome.ret[1]
                /\ outcome.ret[1] < environment.maximum_action
           ELSE /\ outcome.result = "ValueError"
                /\ outcome.ret = NoValue

C13_Witness ==
    /\ pc = "ready"
    /\ IsRandomAction(outcome)
    /\ ~hasattr(environment, "valid_actions")
    /\ environment.minimum_action = 0
    /\ environment.maximum_action = 2
    /\ outcome.ret = <<1>>

(* C14: search() returns the value of environment.maximum_action() in
   every state and leaves the agent unchanged. *)
C14_Search ==
    /\ []((pc = "ready" /\ outcome.op = "search") =>
              (Succeeded(outcome) /\ outcome.ret = <<environment.maximum_action>>))
    /\ [][(pc = "ready" /\ outcome'.op = "search") => (Agent' = Agent /\ UNCHANGED config)]_vars

C14_Witness ==
    /\ pc = "ready"
    /\ outcome.op = "search"
    /\ last_update = percept_update
    /\ age = 2
    /\ outcome.ret = <<2>>

(* C15: model_update_action with an invalid action fails with
   InvalidActionError in both phases. *)
C15_InvalidActionFirst ==
    [][ (pc = "ready" /\ IsAction(outcome') /\ ~is_valid_action(environment, outcome'.arg))
            => outcome'.result = "InvalidActionError" ]_vars

C15_Witness ==
    /\ pc = "ready"
    /\ IsAction(outcome)
    /\ ~is_valid_action(environment, outcome.arg)
    /\ outcome.result = "InvalidActionError"
    /\ last_update = action_update
    /\ age = 1

(* C16: the number p of percept updates that succeeded since construction
   or the last reset is age when last_update = action_update and age + 1
   when last_update = percept_update; the divisor n used by a successful
   percept update is the count of percept updates including that one. *)
C16_PerceptCount ==
    /\ [](pc = "ready" =>
              Len(rewards) = IF last_update = action_update THEN age ELSE age + 1)
    /\ [][ (pc = "ready" /\ IsPercept(outcome') /\ Succeeded(outcome'))
               => StatN(age) = Len(rewards') ]_vars

C16_Witness ==
    /\ pc = "ready"
    /\ twin.born = "reset"
    /\ IsAction(outcome)
    /\ outcome.result = "ProtocolError"
    /\ Len(rewards) = 2
    /\ age = 2

(* C17: a successful model_update_action adds one to age, sets last_update
   to action_update and changes nothing else; a successful
   model_update_percept sets last_update to percept_update, leaves age
   unchanged, and yields the same state for every observation. *)
C17_Frame ==
    [][ /\ (pc = "ready" /\ IsAction(outcome') /\ Succeeded(outcome')) =>
               /\ age' = age + 1
               /\ last_update' = action_update
               /\ UNCHANGED <<mean_reward, reward_m2, total_reward, learning_period, config>>
        /\ (pc = "ready" /\ IsPercept(outcome') /\ Succeeded(outcome')) =>
               /\ last_update' = percept_update
               /\ UNCHANGED <<age, learning_period, config>>
               /\ \A o \in Observations :
                      PerceptStep([born |-> "init", result |-> "ok", s |-> Agent],
                                  o, outcome'.arg).s = Agent'
      ]_vars

C17_Witness ==
    /\ pc = "ready"
    /\ IsPercept(outcome)
    /\ Succeeded(outcome)
    /\ age = 1
    /\ rewards = <<3, 1>>

(* C18: after reset() the agent behaves as a freshly constructed agent with
   the same environment and options: given the same calls, both have the
   same outcome at every update and the same attributes after every call. *)
C18_ResetIsFresh ==
    (pc = "ready" /\ twin.born = "reset") =>
        /\ twin.s = Agent
        /\ (IsAction(outcome) \/ IsPercept(outcome)) => twin.result = outcome.result

C18_Witness ==
    /\ pc = "ready"
    /\ twin.born = "reset"
    /\ prevUpd = "percept"
    /\ resetSince = FALSE
    /\ Len(rewards) = 2
    /\ IsAction(outcome)
    /\ outcome.result = "InvalidActionError"

(* C19: in every state of the agent exactly one of the two updates is
   admitted: model_update_percept succeeds exactly when last_update =
   action_update, model_update_action with a valid action exactly when
   last_update = percept_update; a failed call does not change last_update;
   and the interaction loop makes age grow up to the bound MaxAge. *)
C19_NeverStuck ==
    /\ [](pc = "ready" => (PerceptPhase(last_update) # ActionPhase(last_update)))
    /\ [][ /\ (pc = "ready" /\ IsPercept(outcome')) =>
                  (Succeeded(outcome') <=> last_update = action_update)
           /\ (pc = "ready" /\ IsAction(outcome') /\ is_valid_action(environment, outcome'.arg)) =>
                  (Succeeded(outcome') <=> last_update = percept_update)
           /\ (pc = "ready" /\ ~Succeeded(outcome')) => last_update' = last_update
         ]_<<outcome, last_update, history>>
    /\ (pc = "ready") ~> (pc = "ready" /\ age = MaxAge)

C19_Witness ==
    /\ pc = "ready"
    /\ age = MaxAge
    /\ last_update = action_update
    /\ nAct = MaxAge

(* C20: when the environment exposes neither valid_actions nor both
   minimum_action() and maximum_action(), generate_random_action() raises
   no error, returns nothing (None) and leaves the agent unchanged. *)
C20_NoCapability ==
    /\ []((/\ pc = "ready"
           /\ IsRandomAction(outcome)
           /\ ~hasattr(environment, "valid_actions")
           /\ ~(hasattr(environment, "minimum_action") /\ hasattr(environment, "maximum_action")))
              => (Succeeded(outcome) /\ outcome.ret = NoValue))
    /\ [][ (/\ pc = "ready"
            /\ IsRandomAction(outcome')
            /\ ~hasattr(environment, "valid_actions")
            /\ ~(hasattr(environment, "minimum_action") /\ hasattr(environment, "maximum_action")))
               => (Agent' = Agent /\ UNCHANGED config) ]_vars

C20_Witness ==
    /\ pc = "ready"
    /\ IsRandomAction(outcome)
    /\ environment = BareEnv
    /\ outcome.ret = NoValue
    /\ age = 1

====
